---- MODULE Spec2Model ----
(***************************************************************************)
(* Model of heat-cool: thermium.py (the auxiliary-heat processors and the  *)
(* Thermium.main resource stack) and util/persistentdata.py (the           *)
(* PersistentData store).  The remote Nexia service and the nexia library  *)
(* are the environment: every remote call draws its outcome from the set   *)
(* of outcomes the call can have.                                          *)
(***************************************************************************)
EXTENDS Integers, Sequences, FiniteSets, TLC

(* ------------------------------ bounds -------------------------------- *)
\* number of thermostats the account holds
NumDevices == 2
\* number of consecutive program runs explored
MaxRuns == 2
\* the integers the store API is exercised with are 1, 42, ..., 1 + 41 * MaxIntSteps
MaxIntSteps == 1

(* ------------------------- program constants -------------------------- *)
LoginRetries == 6
SensorRetries == 6
PollRetries == 50
PRIOR_AUX_STATE == "priorAuxState"

(* ------------------- Python values held by the store ------------------ *)
\* A stored value is a pair <<type, number>>; Python's bool is a subclass of
\* int, so True == 1 and False == 0 compare equal.
BoolVal(b) == <<"bool", IF b THEN 1 ELSE 0>>
IntVal(n) == <<"int", n>>
NoneVal == <<"NoneType", 0>>
IsNone(v) == v[1] = "NoneType"
Truth(v) == v[2] # 0
\* Python's == on the values above (None equals only None)
PyEq(a, b) == IF IsNone(a) \/ IsNone(b) THEN IsNone(a) /\ IsNone(b) ELSE a[2] = b[2]

EmptyDict == [k \in {} |-> NoneVal]
DictPut(d, k, v) == [x \in (DOMAIN d) \cup {k} |-> IF x = k THEN v ELSE d[x]]

(* --------------------- json.dump / json.load -------------------------- *)
RECURSIVE Digits(_)
Digits(n) == IF n < 10 THEN <<n>> ELSE Append(Digits(n \div 10), n % 10)

RECURSIVE FromDigits(_)
FromDigits(ds) ==
    IF Len(ds) = 0 THEN 0
    ELSE 10 * FromDigits(SubSeq(ds, 1, Len(ds) - 1)) + ds[Len(ds)]

\* the JSON text of one value: a literal, or a number as its decimal digits
JsonEncode(v) ==
    CASE v[1] = "bool" -> [lit |-> IF v[2] = 1 THEN "true" ELSE "false", digits |-> <<>>]
      [] v[1] = "int" -> [lit |-> "number", digits |-> Digits(v[2])]
      [] OTHER -> [lit |-> "null", digits |-> <<>>]

JsonDecode(t) ==
    CASE t.lit = "true" -> BoolVal(TRUE)
      [] t.lit = "false" -> BoolVal(FALSE)
      [] t.lit = "number" -> IntVal(FromDigits(t.digits))
      [] OTHER -> NoneVal

\* json.dump(self._data, persistFile): the document keeps every category and,
\* in it, every instance id with the text of its value
json_dump(d) == [c \in DOMAIN d |-> [i \in DOMAIN d[c] |-> JsonEncode(d[c][i])]]
json_load(doc) == [c \in DOMAIN doc |-> [i \in DOMAIN doc[c] |-> JsonDecode(doc[c][i])]]

(* ----------------------- PersistentData ------------------------------- *)
\* the persist file: absent, or holding a JSON document
NoFile == [exists |-> FALSE, doc |-> EmptyDict]
FileOf(doc) == [exists |-> TRUE, doc |-> doc]

\* variant: __enter__ that does not read the persist file
PersistentDataEnterEmpty(file) == [data |-> EmptyDict, needsSave |-> FALSE]

\* PersistentData() followed by __enter__: a store record [data, needsSave]
PersistentDataEnter(file) ==
    [data |-> IF file.exists THEN json_load(file.doc) ELSE EmptyDict,
     needsSave |-> FALSE]

\* variant: __exit__ that saves without looking at needsSave
PersistentDataExitAlways(self, file) ==
    [file |-> FileOf(json_dump(self.data)),
     store |-> [self EXCEPT !.needsSave = FALSE], wrote |-> TRUE]

\* __exit__: the file and the store after closing
PersistentDataExit(self, file) ==
    IF self.needsSave
    THEN [file |-> FileOf(json_dump(self.data)),
          store |-> [self EXCEPT !.needsSave = FALSE], wrote |-> TRUE]
    ELSE [file |-> file, store |-> self, wrote |-> FALSE]

\* variant: setVal that keeps the value an instance id already has
setValKeepsOld(self, category, instanceId, val) ==
    IF category \notin DOMAIN self.data
    THEN [data |-> DictPut(self.data, category, DictPut(EmptyDict, instanceId, val)),
          needsSave |-> TRUE]
    ELSE LET cat == self.data[category] IN
         IF instanceId \notin DOMAIN cat
         THEN [data |-> DictPut(self.data, category, DictPut(cat, instanceId, val)),
               needsSave |-> TRUE]
         ELSE self

\* variant: setVal that stores and marks the store without comparing
setValAlwaysDirty(self, category, instanceId, val) ==
    [data |-> DictPut(self.data, category,
                      DictPut(IF category \in DOMAIN self.data
                              THEN self.data[category] ELSE EmptyDict,
                              instanceId, val)),
     needsSave |-> TRUE]

setVal(self, category, instanceId, val) ==
    IF category \notin DOMAIN self.data
    THEN [data |-> DictPut(self.data, category, DictPut(EmptyDict, instanceId, val)),
          needsSave |-> TRUE]
    ELSE LET cat == self.data[category] IN
         IF instanceId \notin DOMAIN cat \/ ~PyEq(cat[instanceId], val)
         THEN [data |-> DictPut(self.data, category, DictPut(cat, instanceId, val)),
               needsSave |-> TRUE]
         ELSE self

getVal(self, category, instanceId, default) ==
    IF category \in DOMAIN self.data /\ instanceId \in DOMAIN self.data[category]
    THEN self.data[category][instanceId]
    ELSE default

\* the store already maps (category, instanceId) to a value equal to val
AlreadyHolds(self, category, instanceId, val) ==
    /\ category \in DOMAIN self.data
    /\ instanceId \in DOMAIN self.data[category]
    /\ PyEq(self.data[category][instanceId], val)


(* ------------------------------ state --------------------------------- *)
VARIABLES
    pc,            \* position of the run in Thermium.main / process()
    run,           \* number of the current program run
    mode,          \* "Enable", "Restore" or "Status": the processor main() selects
    exc,           \* the exception propagating out of process(), "none" if none
    keepActive,    \* the keep.running() sleep inhibitor is held
    sessionOpen,   \* the aiohttp ClientSession is open
    persistData,   \* the PersistentData instance: [data, needsSave]
    persistFile,   \* the persist file on disk
    remoteAux,     \* the service: emergency-heat flag of every thermostat
    thermostats,   \* nexiaHome.thermostats: None, or the list of thermostats
    thermAux,      \* is_emergency_heat_active() of every NexiaThermostat object
    loginRetries,  \* retries of NexiaProc.login
    idx,           \* position of the for loop over nexiaHome.thermostats
    auxHeatOn,     \* local of process()
    priorAuxHeat,  \* local of AuxHeatRestorer.process()
    sensRetries,   \* retries of loadSensorStateRobustly
    pollRetries,   \* retries of loadCurrentSensorState
    obs,           \* what an observer of the run has seen (calls, log lines)
    prev,          \* what the observer kept of the previous run
    extChanged     \* somebody changed a thermostat by hand since the last run

vars == <<pc, run, mode, exc, keepActive, sessionOpen, persistData, persistFile,
          remoteAux, thermostats, thermAux, loginRetries, idx, auxHeatOn,
          priorAuxHeat, sensRetries, pollRetries, obs, prev, extChanged>>

storeVars == <<persistData, persistFile>>
stackVars == <<keepActive, sessionOpen>>
loopVars == <<loginRetries, idx, auxHeatOn, priorAuxHeat, sensRetries, pollRetries>>
envVars == <<remoteAux, thermostats, thermAux>>
runVars == <<run, mode, prev, extChanged>>

Modes == {"Enable", "Restore", "Status"}
\* therm.get_device_id() of the i-th thermostat
get_device_id(i) == ToString(i)
Devices == {get_device_id(i) : i \in 1..NumDevices}
DeviceList == [i \in 1..NumDevices |-> get_device_id(i)]
NoThermostats == [isNone |-> TRUE, items |-> <<>>]

\* the stores earlier Enable runs can have left in the persist file
PriorStores ==
    {DictPut(EmptyDict, PRIOR_AUX_STATE, [d \in ds |-> BoolVal(f[d])]) :
        ds \in (SUBSET Devices) \ {{}}, f \in [Devices -> BOOLEAN]}
InitFiles == {NoFile} \cup {FileOf(json_dump(st)) : st \in PriorStores}

NewStore == [data |-> EmptyDict, needsSave |-> FALSE]

NewObs ==
    [setCalls |-> [d \in Devices |-> 0],
     setArg |-> [d \in Devices |-> FALSE],
     setFailed |-> FALSE,
     refreshCalls |-> [d \in Devices |-> 0],
     jobSubmits |-> 0, polls |-> 0, gaveUp |-> 0, gaveUpAfter |-> 0,
     sensorResult |-> "none",
     loginCalls |-> 0, loginFailures |-> 0, loginExhausted |-> FALSE,
     updateCalls |-> 0,
     unableLogged |-> 0, topLogged |-> 0,
     storeReads |-> 0, storeWrites |-> 0, fileWrites |-> 0, changed |-> FALSE,
     sawNoOp |-> FALSE, lastGot |-> NoneVal,
     dataAtEnter |-> EmptyDict,
     began |-> {}, done |-> {},
     auxAtLogin |-> [d \in Devices |-> FALSE],
     acquired |-> <<>>, released |-> <<>>]

NoPrev ==
    [ran |-> FALSE, mode |-> "Status", done |-> {}, setOk |-> {}, setFailed |-> FALSE,
     aux |-> [d \in Devices |-> FALSE]]

Init ==
    /\ pc = "start"
    /\ run = 1
    /\ mode \in Modes
    /\ exc = "none"
    /\ keepActive = FALSE
    /\ sessionOpen = FALSE
    /\ persistData = NewStore
    /\ persistFile \in InitFiles
    /\ remoteAux \in [Devices -> BOOLEAN]
    /\ thermostats = NoThermostats
    /\ thermAux = [d \in Devices |-> FALSE]
    /\ loginRetries = 0
    /\ idx = 0
    /\ auxHeatOn = FALSE
    /\ priorAuxHeat = NoneVal
    /\ sensRetries = 0
    /\ pollRetries = 0
    /\ obs = NewObs
    /\ prev = NoPrev
    /\ extChanged = FALSE

(* ------------------------- Thermium.main ------------------------------ *)
\* variant: an exception leaves main() without the exit stack closing
RaiseSkipsUnwind(kind) ==
    /\ pc' = "finished"
    /\ exc' = kind
    /\ loginRetries' = 0
    /\ idx' = 0
    /\ auxHeatOn' = FALSE
    /\ priorAuxHeat' = NoneVal
    /\ sensRetries' = 0
    /\ pollRetries' = 0

\* an exception leaves process(): the exit stack unwinds
\* (the frames of process() are gone, and their locals with them)
Raise(kind) ==
    /\ pc' = "exitSession"
    /\ exc' = kind
    /\ loginRetries' = 0
    /\ idx' = 0
    /\ auxHeatOn' = FALSE
    /\ priorAuxHeat' = NoneVal
    /\ sensRetries' = 0
    /\ pollRetries' = 0

\* the observer's counts of the login and of the sensor refresh in progress
\* end with them
PassObs(o) ==
    [o EXCEPT !.jobSubmits = 0, !.polls = 0, !.gaveUp = 0, !.gaveUpAfter = 0,
              !.sensorResult = "none"]
Unwound(o) == [PassObs(o) EXCEPT !.loginCalls = 0, !.loginFailures = 0]

\* cStack.enter_context(keep.running())
EnterKeep ==
    /\ pc = "start"
    /\ keepActive' = TRUE
    /\ obs' = [obs EXCEPT !.acquired = Append(@, "keep")]
    /\ pc' = "enterStore"
    /\ UNCHANGED <<exc, sessionOpen, storeVars, envVars, loopVars, runVars>>

\* persistentData = cStack.enter_context(PersistentData())
EnterStore ==
    /\ pc = "enterStore"
    /\ persistData' = PersistentDataEnter(persistFile)
    /\ obs' = [obs EXCEPT !.acquired = Append(@, "store"),
                          !.dataAtEnter = persistData'.data]
    /\ pc' = "enterSession"
    /\ UNCHANGED <<exc, stackVars, persistFile, envVars, loopVars, runVars>>

\* session = await cStack.enter_async_context(ClientSession())
EnterSession ==
    /\ pc = "enterSession"
    /\ sessionOpen' = TRUE
    /\ obs' = [obs EXCEPT !.acquired = Append(@, "session")]
    /\ pc' = "construct"
    /\ UNCHANGED <<exc, keepActive, storeVars, envVars, loopVars, runVars>>

\* parseArgs and the processor's constructor, which reads accesstoken.json
Construct ==
    /\ pc = "construct"
    /\ \E readable \in BOOLEAN :
        IF readable
        THEN /\ pc' = "login"
             /\ loginRetries' = LoginRetries
             /\ UNCHANGED <<exc, idx, auxHeatOn, priorAuxHeat, sensRetries, pollRetries>>
        ELSE Raise("OSError")
    /\ UNCHANGED <<stackVars, storeVars, envVars, obs, runVars>>


(* ------------------------- NexiaProc.login ---------------------------- *)
\* variant: the login loop without "retries -= 1"
LoginAttemptNoCountdown ==
    /\ pc = "login"
    /\ loginRetries > 0
    /\ \E r \in {"ok", "ClientConnectorError", "ClientError"} :
        CASE r = "ok" ->
               /\ pc' = "update"
               /\ obs' = [obs EXCEPT !.loginCalls = @ + 1]
               /\ UNCHANGED <<exc, loopVars>>
          [] r = "ClientConnectorError" ->
               /\ obs' = [obs EXCEPT !.loginCalls = @ + 1, !.loginFailures = @ + 1]
               /\ UNCHANGED <<pc, exc, loopVars>>
          [] OTHER ->
               /\ Raise(r)
               /\ obs' = Unwound(obs)
    /\ UNCHANGED <<stackVars, storeVars, envVars, runVars>>

\* one pass of the while loop: await self.nexiaHome.login()
LoginAttempt ==
    /\ pc = "login"
    /\ loginRetries > 0
    /\ \E r \in {"ok", "ClientConnectorError", "ClientError"} :
        CASE r = "ok" ->
               /\ pc' = "update"
               /\ obs' = [obs EXCEPT !.loginCalls = @ + 1]
               /\ UNCHANGED <<exc, loopVars>>
          [] r = "ClientConnectorError" ->
               /\ loginRetries' = loginRetries - 1
               /\ pc' = IF loginRetries' = 0 THEN "update" ELSE "login"
               /\ obs' = [obs EXCEPT !.loginCalls = @ + 1,
                                     !.loginFailures = @ + 1,
                                     !.loginExhausted = (loginRetries' = 0)]
               /\ UNCHANGED <<exc, idx, auxHeatOn, priorAuxHeat, sensRetries,
                              pollRetries>>
          [] OTHER ->
               /\ Raise(r)
               /\ obs' = Unwound(obs)
    /\ UNCHANGED <<stackVars, storeVars, envVars, runVars>>

\* await self.nexiaHome.update(), reached after the loop however it ended
Update ==
    /\ pc = "update"
    /\ \E r \in {"thermostats", "nothing", "ClientError"} :
        CASE r = "thermostats" ->
               /\ thermostats' = [isNone |-> FALSE, items |-> DeviceList]
               /\ thermAux' = remoteAux
               /\ obs' = [obs EXCEPT !.updateCalls = @ + 1, !.auxAtLogin = remoteAux]
               /\ pc' = "loginReturn"
               /\ UNCHANGED <<exc, loopVars>>
          [] r = "nothing" ->
               /\ obs' = [obs EXCEPT !.updateCalls = @ + 1]
               /\ pc' = "loginReturn"
               /\ UNCHANGED <<exc, loopVars, thermostats, thermAux>>
          [] OTHER ->
               /\ Raise(r)
               /\ obs' = [Unwound(obs) EXCEPT !.updateCalls = @ + 1]
               /\ UNCHANGED <<thermostats, thermAux>>
    /\ UNCHANGED <<stackVars, storeVars, remoteAux, runVars>>

\* the debug loop over self.nexiaHome.thermostats, the return value, and the
\* caller's "if not await self.login()"
LoginReturn ==
    /\ pc = "loginReturn"
    /\ IF thermostats.isNone
       THEN \* for therm in None
            /\ Raise("TypeError")
            /\ obs' = Unwound(obs)
       ELSE /\ LET loggedIn == ~thermostats.isNone IN
               IF loggedIn
               THEN /\ pc' = "forTherm"
                    /\ idx' = 1
                    /\ obs' = Unwound(obs)
               ELSE /\ pc' = "exitSession"
                    /\ idx' = 0
                    /\ obs' = [Unwound(obs) EXCEPT !.unableLogged = @ + 1]
            /\ loginRetries' = 0
            /\ UNCHANGED <<exc, auxHeatOn, priorAuxHeat, sensRetries, pollRetries>>
    /\ UNCHANGED <<stackVars, storeVars, envVars, runVars>>

(* ------------------ the for loop of the processors -------------------- *)
CurTherm == thermostats.items[idx]
InLoop == pc = "forTherm" /\ idx <= Len(thermostats.items)

\* variant: Enable persisting the state it is about to set instead of the
\* state it found
EnablerBeginPersistsTarget ==
    /\ InLoop
    /\ mode = "Enable"
    /\ auxHeatOn' = thermAux[CurTherm]
    /\ persistData' = setVal(persistData, PRIOR_AUX_STATE, CurTherm, BoolVal(TRUE))
    /\ obs' = [obs EXCEPT !.storeWrites = @ + 1,
                          !.changed = @ \/ ~AlreadyHolds(persistData, PRIOR_AUX_STATE,
                                                          CurTherm, BoolVal(TRUE)),
                          !.began = @ \cup {CurTherm}]
    /\ sensRetries' = SensorRetries
    /\ pc' = "sensor"
    /\ UNCHANGED <<exc, stackVars, persistFile, envVars, loginRetries, idx,
                   priorAuxHeat, pollRetries, runVars>>

\* AuxHeatEnabler.process: the body up to loadSensorStateRobustly
EnablerBegin ==
    /\ InLoop
    /\ mode = "Enable"
    /\ auxHeatOn' = thermAux[CurTherm]
    /\ persistData' = setVal(persistData, PRIOR_AUX_STATE, CurTherm, BoolVal(auxHeatOn'))
    /\ obs' = [obs EXCEPT !.storeWrites = @ + 1,
                          !.changed = @ \/ ~AlreadyHolds(persistData, PRIOR_AUX_STATE,
                                                          CurTherm, BoolVal(auxHeatOn')),
                          !.began = @ \cup {CurTherm}]
    /\ sensRetries' = SensorRetries
    /\ pc' = "sensor"
    /\ UNCHANGED <<exc, stackVars, persistFile, envVars, loginRetries, idx,
                   priorAuxHeat, pollRetries, runVars>>

\* variant: the Restore body without "if priorAuxHeat is None"
RestorerBeginNoDefault ==
    /\ InLoop
    /\ mode = "Restore"
    /\ auxHeatOn' = thermAux[CurTherm]
    /\ LET got == getVal(persistData, PRIOR_AUX_STATE, CurTherm, NoneVal) IN
       /\ priorAuxHeat' = got
       /\ obs' = [obs EXCEPT !.storeReads = @ + 1, !.lastGot = got,
                             !.began = @ \cup {CurTherm}]
    /\ sensRetries' = SensorRetries
    /\ pc' = "sensor"
    /\ UNCHANGED <<exc, stackVars, storeVars, envVars, loginRetries, idx,
                   pollRetries, runVars>>

\* AuxHeatRestorer.process: the body up to loadSensorStateRobustly
RestorerBegin ==
    /\ InLoop
    /\ mode = "Restore"
    /\ auxHeatOn' = thermAux[CurTherm]
    /\ LET got == getVal(persistData, PRIOR_AUX_STATE, CurTherm, NoneVal) IN
       /\ priorAuxHeat' = IF IsNone(got) THEN BoolVal(FALSE) ELSE got
       /\ obs' = [obs EXCEPT !.storeReads = @ + 1, !.lastGot = got,
                             !.began = @ \cup {CurTherm}]
    /\ sensRetries' = SensorRetries
    /\ pc' = "sensor"
    /\ UNCHANGED <<exc, stackVars, storeVars, envVars, loginRetries, idx,
                   pollRetries, runVars>>

\* variant: the Status body persisting the auxiliary heat state as Enable does
StatusBeginPersists ==
    /\ InLoop
    /\ mode = "Status"
    /\ persistData' = setVal(persistData, PRIOR_AUX_STATE, CurTherm,
                             BoolVal(thermAux[CurTherm]))
    /\ obs' = [obs EXCEPT !.storeWrites = @ + 1,
                          !.changed = @ \/ ~AlreadyHolds(persistData, PRIOR_AUX_STATE,
                                                    CurTherm, BoolVal(thermAux[CurTherm])),
                          !.began = @ \cup {CurTherm}]
    /\ sensRetries' = SensorRetries
    /\ pc' = "sensor"
    /\ UNCHANGED <<exc, stackVars, persistFile, envVars, loginRetries, idx,
                   auxHeatOn, priorAuxHeat, pollRetries, runVars>>

\* StatusPresenter.process: the body starts with loadSensorStateRobustly
StatusBegin ==
    /\ InLoop
    /\ mode = "Status"
    /\ obs' = [obs EXCEPT !.began = @ \cup {CurTherm}]
    /\ sensRetries' = SensorRetries
    /\ pc' = "sensor"
    /\ UNCHANGED <<exc, stackVars, storeVars, envVars, loginRetries, idx,
                   auxHeatOn, priorAuxHeat, pollRetries, runVars>>

\* the for loop is over: process() returns
ProcessReturn ==
    /\ pc = "forTherm"
    /\ idx > Len(thermostats.items)
    /\ pc' = "exitSession"
    /\ idx' = 0
    /\ UNCHANGED <<exc, stackVars, storeVars, envVars, loginRetries, auxHeatOn,
                   priorAuxHeat, sensRetries, pollRetries, obs, runVars>>


(* ---------- loadSensorStateRobustly / loadCurrentSensorState ---------- *)
\* variant: except ClientError without "retries -= 1"
SensorRetryNoCountdown ==
    /\ pollRetries' = 0
    /\ pc' = "sensor"
    /\ UNCHANGED <<exc, loginRetries, idx, auxHeatOn, priorAuxHeat, sensRetries>>

\* variant: the last ClientError is raised again when no retries are left
SensorRetryRaises ==
    IF sensRetries - 1 = 0
    THEN Raise("ClientError")
    ELSE /\ sensRetries' = sensRetries - 1
         /\ pollRetries' = 0
         /\ pc' = "sensor"
         /\ UNCHANGED <<exc, loginRetries, idx, auxHeatOn, priorAuxHeat>>

\* except ClientError in loadSensorStateRobustly: log, sleep, retries -= 1,
\* and the while loop ends when no retries are left
SensorRetry ==
    /\ sensRetries' = sensRetries - 1
    /\ pollRetries' = 0
    /\ pc' = IF sensRetries' = 0 THEN "decide" ELSE "sensor"
    /\ UNCHANGED <<exc, loginRetries, idx, auxHeatOn, priorAuxHeat>>

\* what loadSensorStateRobustly hands to its caller: it has no return
\* statement, so None whether it broke out of the loop or ran out of retries
loadSensorStateRobustlyResult(outcome) == NoneVal

\* loadCurrentSensorState returns, so loadSensorStateRobustly breaks out of its
\* loop and returns too
SensorReturn ==
    /\ sensRetries' = 0
    /\ pollRetries' = 0
    /\ pc' = "decide"
    /\ UNCHANGED <<exc, loginRetries, idx, auxHeatOn, priorAuxHeat>>

\* loadCurrentSensorState up to the polling loop: post the request for the
\* current state, which answers with the polling path
SubmitJob ==
    /\ pc = "sensor"
    /\ sensRetries > 0
    /\ \E r \in {"ok", "ClientError", "Exception"} :
        CASE r = "ok" ->
               /\ pollRetries' = PollRetries
               /\ pc' = "poll"
               /\ obs' = [obs EXCEPT !.jobSubmits = @ + 1, !.polls = 0]
               /\ UNCHANGED <<exc, loginRetries, idx, auxHeatOn, priorAuxHeat,
                              sensRetries>>
          [] r = "ClientError" ->
               /\ SensorRetry
               /\ obs' = [obs EXCEPT !.jobSubmits = @ + 1,
                             !.sensorResult = IF sensRetries' = 0 THEN "Exhausted" ELSE @]
          [] OTHER ->
               /\ Raise(r)
               /\ obs' = Unwound(obs)
    /\ UNCHANGED <<stackVars, storeVars, envVars, runVars>>

\* variant: the polling loop without "retries -= 1"
PollNoCountdown ==
    /\ pc = "poll"
    /\ pollRetries > 0
    /\ \E r \in {"null", "success", "failure", "ClientError", "Exception"} :
        CASE r = "null" ->
               /\ obs' = [obs EXCEPT !.polls = @ + 1]
               /\ UNCHANGED <<pc, exc, loopVars>>
          [] r \in {"success", "failure"} ->
               /\ SensorReturn
               /\ obs' = [obs EXCEPT !.polls = 0,
                             !.sensorResult = IF r = "success" THEN "Success"
                                              ELSE "OtherStatus"]
          [] r = "ClientError" ->
               /\ SensorRetry
               /\ obs' = [obs EXCEPT !.polls = 0,
                             !.sensorResult = IF sensRetries' = 0 THEN "Exhausted" ELSE @]
          [] OTHER ->
               /\ Raise(r)
               /\ obs' = Unwound(obs)
    /\ UNCHANGED <<stackVars, storeVars, envVars, runVars>>

\* variant: a status other than success is raised as a ClientError, which the
\* robust refresh retries
PollRetriesOnFailure ==
    /\ pc = "poll"
    /\ pollRetries > 0
    /\ \E r \in {"null", "success", "failure", "ClientError", "Exception"} :
        CASE r = "null" ->
               IF pollRetries - 1 = 0
               THEN /\ SensorReturn
                    /\ obs' = [obs EXCEPT !.polls = 0, !.gaveUp = @ + 1,
                                          !.gaveUpAfter = obs.polls + 1,
                                          !.sensorResult = "TimedOut"]
               ELSE /\ pollRetries' = pollRetries - 1
                    /\ obs' = [obs EXCEPT !.polls = @ + 1]
                    /\ UNCHANGED <<pc, exc, loginRetries, idx, auxHeatOn,
                                   priorAuxHeat, sensRetries>>
          [] r = "success" ->
               /\ SensorReturn
               /\ obs' = [obs EXCEPT !.polls = 0, !.sensorResult = "Success"]
          [] r = "failure" ->
               /\ SensorRetry
               /\ obs' = [obs EXCEPT !.polls = 0, !.sensorResult = "OtherStatus"]
          [] r = "ClientError" ->
               /\ SensorRetry
               /\ obs' = [obs EXCEPT !.polls = 0,
                             !.sensorResult = IF sensRetries' = 0 THEN "Exhausted" ELSE @]
          [] OTHER ->
               /\ Raise(r)
               /\ obs' = Unwound(obs)
    /\ UNCHANGED <<stackVars, storeVars, envVars, runVars>>

\* one pass of the polling loop of loadCurrentSensorState
Poll ==
    /\ pc = "poll"
    /\ pollRetries > 0
    /\ \E r \in {"null", "success", "failure", "ClientError", "Exception"} :
        CASE r = "null" ->
               IF pollRetries - 1 = 0
               THEN \* the loop ends: "Gave up waiting for current sensor state"
                    /\ SensorReturn
                    /\ obs' = [obs EXCEPT !.polls = 0, !.gaveUp = @ + 1,
                                          !.gaveUpAfter = obs.polls + 1,
                                          !.sensorResult = "TimedOut"]
               ELSE /\ pollRetries' = pollRetries - 1
                    /\ obs' = [obs EXCEPT !.polls = @ + 1]
                    /\ UNCHANGED <<pc, exc, loginRetries, idx, auxHeatOn,
                                   priorAuxHeat, sensRetries>>
          [] r \in {"success", "failure"} ->
               /\ SensorReturn
               /\ obs' = [obs EXCEPT !.polls = 0,
                             !.sensorResult = IF r = "success" THEN "Success"
                                              ELSE "OtherStatus"]
          [] r = "ClientError" ->
               /\ SensorRetry
               /\ obs' = [obs EXCEPT !.polls = 0,
                             !.sensorResult = IF sensRetries' = 0 THEN "Exhausted" ELSE @]
          [] OTHER ->
               /\ Raise(r)
               /\ obs' = Unwound(obs)
    /\ UNCHANGED <<stackVars, storeVars, envVars, runVars>>

(* ------------- the remote calls that end a thermostat's pass ---------- *)
\* the call returned: the info line is logged and the for loop moves on
\* (the locals of the pass are dead)
PassDone ==
    /\ idx' = idx + 1
    /\ pc' = "forTherm"
    /\ auxHeatOn' = FALSE
    /\ priorAuxHeat' = NoneVal
    /\ sensRetries' = 0
    /\ pollRetries' = 0
    /\ UNCHANGED <<exc, loginRetries>>

\* variant: the refresh is started without await, and the for loop moves on
\* while the call is still in flight
refreshThermostatDataNotAwaited(therm) ==
    /\ PassDone
    /\ obs' = [PassObs(obs) EXCEPT !.refreshCalls[therm] = @ + 1]
    /\ UNCHANGED <<remoteAux, thermAux>>

\* await self.refreshThermostatData(therm)
refreshThermostatData(therm) ==
    \E ok \in BOOLEAN :
        /\ IF ok
           THEN /\ thermAux' = [thermAux EXCEPT ![therm] = remoteAux[therm]]
                /\ PassDone
           ELSE /\ Raise("ClientError")
                /\ UNCHANGED thermAux
        /\ obs' = [PassObs(obs) EXCEPT !.refreshCalls[therm] = @ + 1,
                                       !.done = IF ok THEN @ \cup {therm} ELSE @]
        /\ UNCHANGED remoteAux

\* variant: set_emergency_heat inside a retry loop that lacks its break, so a
\* call that succeeded is issued again
set_emergency_heat_again(therm, value) ==
    \E ok \in BOOLEAN :
        /\ IF ok
           THEN /\ remoteAux' = [remoteAux EXCEPT ![therm] = value]
                /\ thermAux' = [thermAux EXCEPT ![therm] = value]
                /\ UNCHANGED <<pc, exc, loopVars>>
           ELSE /\ Raise("ClientError")
                /\ UNCHANGED <<remoteAux, thermAux>>
        /\ obs' = [obs EXCEPT !.setCalls[therm] = @ + 1,
                              !.setArg[therm] = value,
                              !.setFailed = @ \/ ~ok]

\* await therm.set_emergency_heat(value)
set_emergency_heat(therm, value) ==
    \E ok \in BOOLEAN :
        /\ IF ok
           THEN /\ remoteAux' = [remoteAux EXCEPT ![therm] = value]
                /\ thermAux' = [thermAux EXCEPT ![therm] = value]
                /\ PassDone
           ELSE /\ Raise("ClientError")
                /\ UNCHANGED <<remoteAux, thermAux>>
        /\ obs' = [PassObs(obs) EXCEPT !.setCalls[therm] = @ + 1,
                                       !.setArg[therm] = value,
                                       !.setFailed = @ \/ ~ok,
                                       !.done = IF ok THEN @ \cup {therm} ELSE @]

\* variant: Enable switching the auxiliary heat on without looking at auxHeatOn
EnablerDecideAlways ==
    /\ pc = "decide"
    /\ mode = "Enable"
    /\ set_emergency_heat(CurTherm, TRUE)
    /\ UNCHANGED <<stackVars, storeVars, thermostats, runVars>>

\* AuxHeatEnabler.process: if auxHeatOn ... else ...
EnablerDecide ==
    /\ pc = "decide"
    /\ mode = "Enable"
    /\ IF auxHeatOn
       THEN refreshThermostatData(CurTherm)
       ELSE set_emergency_heat(CurTherm, TRUE)
    /\ UNCHANGED <<stackVars, storeVars, thermostats, runVars>>

\* variant: Restore comparing with off whatever the store returned
RestorerDecideIgnoresPrior ==
    /\ pc = "decide"
    /\ mode = "Restore"
    /\ IF ~auxHeatOn
       THEN refreshThermostatData(CurTherm)
       ELSE set_emergency_heat(CurTherm, FALSE)
    /\ UNCHANGED <<stackVars, storeVars, thermostats, runVars>>

\* AuxHeatRestorer.process: if auxHeatOn == priorAuxHeat ... else ...
RestorerDecide ==
    /\ pc = "decide"
    /\ mode = "Restore"
    /\ IF PyEq(BoolVal(auxHeatOn), priorAuxHeat)
       THEN refreshThermostatData(CurTherm)
       ELSE set_emergency_heat(CurTherm, Truth(priorAuxHeat))
    /\ UNCHANGED <<stackVars, storeVars, thermostats, runVars>>

\* StatusPresenter.process: refreshThermostatData and the info line
StatusDecide ==
    /\ pc = "decide"
    /\ mode = "Status"
    /\ refreshThermostatData(CurTherm)
    /\ UNCHANGED <<stackVars, storeVars, thermostats, runVars>>

(* --------------- the exit stack closes, in reverse order -------------- *)
ExitSession ==
    /\ pc = "exitSession"
    /\ sessionOpen' = FALSE
    /\ obs' = [obs EXCEPT !.released = Append(@, "session")]
    /\ pc' = "exitStore"
    /\ UNCHANGED <<exc, keepActive, storeVars, envVars, loopVars, runVars>>

\* variant: the store is saved only when process() returned normally
ExitStoreOnlyOnSuccess ==
    /\ pc = "exitStore"
    /\ LET out == IF exc = "none" THEN PersistentDataExit(persistData, persistFile)
                  ELSE [file |-> persistFile, store |-> persistData, wrote |-> FALSE] IN
       /\ persistFile' = out.file
       /\ persistData' = out.store
       /\ obs' = [obs EXCEPT !.released = Append(@, "store"),
                             !.fileWrites = IF out.wrote THEN @ + 1 ELSE @]
    /\ pc' = "exitKeep"
    /\ UNCHANGED <<exc, stackVars, envVars, loopVars, runVars>>

\* PersistentData.__exit__
ExitStore ==
    /\ pc = "exitStore"
    /\ LET out == PersistentDataExit(persistData, persistFile) IN
       /\ persistFile' = out.file
       /\ persistData' = out.store
       /\ obs' = [obs EXCEPT !.released = Append(@, "store"),
                             !.fileWrites = IF out.wrote THEN @ + 1 ELSE @]
    /\ pc' = "exitKeep"
    /\ UNCHANGED <<exc, stackVars, envVars, loopVars, runVars>>

\* keep.running() is released; an exception reaches the handler under
\* __main__, which logs it
ExitKeep ==
    /\ pc = "exitKeep"
    /\ keepActive' = FALSE
    /\ obs' = [obs EXCEPT !.released = Append(@, "keep"),
                          !.topLogged = IF exc # "none" THEN @ + 1 ELSE @]
    /\ pc' = "finished"
    /\ UNCHANGED <<exc, sessionOpen, storeVars, envVars, loopVars, runVars>>

(* --------------------- between two program runs ----------------------- *)
\* the program is started again, with any of its options
NextRun ==
    /\ pc = "finished"
    /\ run < MaxRuns
    /\ run' = run + 1
    /\ mode' \in Modes
    /\ prev' = [ran |-> TRUE, mode |-> mode, done |-> obs.done,
                setOk |-> {d \in obs.done : obs.setCalls[d] > 0},
                setFailed |-> obs.setFailed,
                \* the flag an Enable run found on a thermostat whose pass it completed
                aux |-> [d \in Devices |->
                            mode = "Enable" /\ d \in obs.done /\ obs.auxAtLogin[d]]]
    /\ extChanged' = FALSE
    /\ obs' = NewObs
    /\ exc' = "none"
    /\ persistData' = NewStore
    /\ thermostats' = NoThermostats
    /\ thermAux' = [d \in Devices |-> FALSE]
    /\ pc' = "start"
    /\ UNCHANGED <<stackVars, persistFile, remoteAux, loopVars>>

\* somebody switches the auxiliary heat of a thermostat by hand before the
\* next run (changes before the first run are the choice of Init)
ExternalChange ==
    /\ pc = "start"
    /\ prev.ran
    /\ \E d \in Devices : remoteAux' = [remoteAux EXCEPT ![d] = ~@]
    /\ extChanged' = TRUE
    /\ prev' = [NoPrev EXCEPT !.ran = TRUE]
    /\ UNCHANGED <<pc, run, mode, exc, stackVars, storeVars, thermostats,
                   thermAux, loopVars, obs>>

(* -------------------------- specifications ---------------------------- *)
\* one run of the program, from any persist file and any state of the
\* thermostats
Next ==
    \/ EnterKeep \/ EnterStore \/ EnterSession \/ Construct
    \/ LoginAttempt \/ Update \/ LoginReturn
    \/ EnablerBegin \/ RestorerBegin \/ StatusBegin \/ ProcessReturn
    \/ SubmitJob \/ Poll
    \/ EnablerDecide \/ RestorerDecide \/ StatusDecide
    \/ ExitSession \/ ExitStore \/ ExitKeep

Spec == Init /\ [][Next]_vars

\* consecutive runs of the program
NextRuns == Next \/ NextRun \/ ExternalChange

RunsSpec == Init /\ [][NextRuns]_vars


(* ------------ the store by itself, under any use of its API ----------- *)
\* the (category, instance id) pairs of the module's own demonstration under
\* __main__; the values are the booleans thermium stores and some integers
StoreKeys == {<<"bouncy", "j">>, <<"clove", "s">>, <<"bouncy", "s">>}
StoreVals ==
    {BoolVal(TRUE), BoolVal(FALSE)} \cup {IntVal(1 + 41 * k) : k \in 0..MaxIntSteps}

StoreInit ==
    /\ pc = "closed"
    /\ run = 1
    /\ mode = "Status"
    /\ exc = "none"
    /\ keepActive = FALSE
    /\ sessionOpen = FALSE
    /\ persistData = NewStore
    /\ persistFile = NoFile
    /\ remoteAux = [d \in Devices |-> FALSE]
    /\ thermostats = NoThermostats
    /\ thermAux = [d \in Devices |-> FALSE]
    /\ loginRetries = 0
    /\ idx = 0
    /\ auxHeatOn = FALSE
    /\ priorAuxHeat = NoneVal
    /\ sensRetries = 0
    /\ pollRetries = 0
    /\ obs = NewObs
    /\ prev = NoPrev
    /\ extChanged = FALSE

notStore == <<run, mode, exc, keepActive, sessionOpen, remoteAux, thermostats,
              thermAux, loopVars, prev, extChanged>>

\* with PersistentData() as pd
StoreEnter ==
    /\ pc = "closed"
    /\ persistData' = PersistentDataEnter(persistFile)
    /\ obs' = [NewObs EXCEPT !.dataAtEnter = persistData'.data]
    /\ pc' = "open"
    /\ UNCHANGED <<persistFile, notStore>>

\* pd.setVal(category, instanceId, val)
StoreSetVal ==
    /\ pc = "open"
    /\ \E k \in StoreKeys, v \in StoreVals :
        /\ persistData' = setVal(persistData, k[1], k[2], v)
        /\ obs' = [obs EXCEPT
                      !.changed = @ \/ ~AlreadyHolds(persistData, k[1], k[2], v),
                      !.sawNoOp = @ \/ AlreadyHolds(persistData, k[1], k[2], v)]
    /\ UNCHANGED <<pc, persistFile, notStore>>

\* pd.getVal(category, instanceId)
StoreGetVal ==
    /\ pc = "open"
    /\ \E k \in StoreKeys :
        obs' = [obs EXCEPT !.lastGot = getVal(persistData, k[1], k[2], NoneVal)]
    /\ UNCHANGED <<pc, storeVars, notStore>>

\* the with block ends: __exit__
StoreExit ==
    /\ pc = "open"
    /\ LET out == PersistentDataExit(persistData, persistFile) IN
       /\ persistFile' = out.file
       /\ persistData' = out.store
       /\ obs' = [obs EXCEPT !.fileWrites = IF out.wrote THEN @ + 1 ELSE @,
                             !.lastGot = NoneVal, !.dataAtEnter = EmptyDict]
    /\ pc' = "closed"
    /\ UNCHANGED notStore

StoreNext == StoreEnter \/ StoreSetVal \/ StoreGetVal \/ StoreExit

StoreSpec == StoreInit /\ [][StoreNext]_vars


\* the asyncio event loop runs main() on: every await comes back
FairSpec == Spec /\ WF_vars(Next)

(* ============================== claims ================================ *)
NeverPersisted(d) ==
    \/ PRIOR_AUX_STATE \notin DOMAIN obs.dataAtEnter
    \/ d \notin DOMAIN obs.dataAtEnter[PRIOR_AUX_STATE]

\* C1: in every run, in every mode and whatever the remote calls do, at most
\* one set_emergency_heat call is issued for any one thermostat.
C1_AtMostOneSetAuxHeat == \A d \in Devices : obs.setCalls[d] <= 1

\* a finished run that issued the call for every thermostat
C1_Witness ==
    /\ pc = "finished"
    /\ \A d \in Devices : obs.setCalls[d] = 1 /\ d \in obs.done

\* C2: in an Enable run, from the moment a thermostat's pass has begun, the
\* store holds as its priorAuxState the flag the thermostat had at login,
\* whatever the store held before; when the run has finished the persist file
\* holds it too.
C2_EnablePersistsPriorState ==
    mode = "Enable" =>
        \A d \in obs.began :
            /\ getVal(persistData, PRIOR_AUX_STATE, d, NoneVal) = BoolVal(obs.auxAtLogin[d])
            /\ pc = "finished" =>
                 /\ persistFile.exists
                 /\ PRIOR_AUX_STATE \in DOMAIN persistFile.doc
                 /\ d \in DOMAIN persistFile.doc[PRIOR_AUX_STATE]
                 /\ JsonDecode(persistFile.doc[PRIOR_AUX_STATE][d])
                        = BoolVal(obs.auxAtLogin[d])

\* a finished Enable run over every thermostat, one of which was switched on
\* by the run and had the opposite value persisted before
C2_Witness ==
    /\ mode = "Enable"
    /\ pc = "finished"
    /\ obs.began = Devices
    /\ \E d \in Devices :
        /\ ~NeverPersisted(d)
        /\ obs.dataAtEnter[PRIOR_AUX_STATE][d] = BoolVal(TRUE)
        /\ ~obs.auxAtLogin[d]
        /\ obs.setCalls[d] = 1
        /\ remoteAux[d]

\* C3, as claimed: when all 6 login attempts failed, the finished run has
\* processed no thermostat, has logged "Unable to contact thermostat" once and
\* has left the store as it was, not dirty.
C3_LoginFailureAborts ==
    (pc = "finished" /\ obs.loginExhausted) =>
        /\ obs.began = {}
        /\ \A d \in Devices : obs.setCalls[d] = 0 /\ obs.refreshCalls[d] = 0
        /\ obs.unableLogged = 1
        /\ persistData.data = obs.dataAtEnter
        /\ ~persistData.needsSave
        /\ obs.fileWrites = 0

\* C4, as claimed: a second Enable run issues no set_emergency_heat call when
\* no such call of the first Enable run failed and nothing changed in between.
C4_EnableTwiceNoCalls ==
    (prev.ran /\ prev.mode = "Enable" /\ mode = "Enable"
        /\ ~prev.setFailed /\ ~extChanged) =>
        \A d \in Devices : obs.setCalls[d] = 0

\* C4, amended: a second Enable run issues no set_emergency_heat call for a
\* thermostat whose pass the first Enable run completed, when nothing changed
\* in between.
C4_EnableTwiceCompleted ==
    (prev.ran /\ prev.mode = "Enable" /\ mode = "Enable" /\ ~extChanged) =>
        \A d \in prev.done : obs.setCalls[d] = 0

\* a finished second Enable run after a first one that completed every pass
\* and switched a thermostat on
C4_Witness ==
    /\ prev.ran /\ prev.mode = "Enable" /\ mode = "Enable" /\ ~extChanged
    /\ prev.done = Devices
    /\ prev.setOk # {}
    /\ pc = "finished"
    /\ obs.done = Devices

\* C5: in a Restore run, for a thermostat with no persisted priorAuxState the
\* target is False: if its auxiliary heat is on the one call is
\* set_emergency_heat(False) and no read-only refresh, if it is off the one
\* call is the read-only refresh.
C5_RestoreDefaultsOff ==
    mode = "Restore" =>
        /\ (pc \in {"sensor", "poll", "decide"} /\ NeverPersisted(CurTherm))
               => priorAuxHeat = BoolVal(FALSE)
        /\ \A d \in Devices :
            NeverPersisted(d) =>
                IF obs.auxAtLogin[d]
                THEN /\ obs.refreshCalls[d] = 0
                     /\ obs.setCalls[d] > 0 => ~obs.setArg[d]
                     /\ d \in obs.done => obs.setCalls[d] = 1 /\ ~remoteAux[d]
                ELSE /\ obs.setCalls[d] = 0
                     /\ d \in obs.done => obs.refreshCalls[d] = 1

\* a Restore run switched off a thermostat that was on and had nothing
\* persisted
C5_Witness ==
    /\ mode = "Restore"
    /\ \E d \in obs.done :
        /\ NeverPersisted(d)
        /\ obs.auxAtLogin[d]
        /\ obs.setCalls[d] = 1
        /\ ~remoteAux[d]

\* C6: a Status run never calls getVal or setVal, never calls
\* set_emergency_heat, refreshes a thermostat at most once, and leaves the
\* store's contents, its needsSave flag and the persist file as they were.
C6_StatusReadOnly ==
    mode = "Status" =>
        /\ obs.storeReads = 0
        /\ obs.storeWrites = 0
        /\ \A d \in Devices : obs.setCalls[d] = 0 /\ obs.refreshCalls[d] <= 1
        /\ \A d \in obs.done : obs.refreshCalls[d] = 1
        /\ persistData.data = obs.dataAtEnter
        /\ ~persistData.needsSave
        /\ obs.fileWrites = 0

\* a finished Status run over every thermostat, with a store that is not empty
C6_Witness ==
    /\ mode = "Status"
    /\ pc = "finished"
    /\ obs.done = Devices
    /\ obs.dataAtEnter # EmptyDict

\* C7: the polling loop takes at most 50 polls; when every poll of a job
\* answers null it ends after exactly 50, logs "Gave up waiting" once and
\* returns without an exception; and a run that is polling always leaves the
\* polling loop.
C7_PollingTerminates ==
    /\ [](/\ obs.polls <= 50
          /\ obs.sensorResult = "TimedOut" =>
                /\ obs.gaveUpAfter = 50
                /\ obs.gaveUp = 1
                /\ exc = "none"
                /\ pc = "decide")
    /\ (pc = "poll") ~> (pc # "poll")

\* a sensor refresh gave up after its polls
C7_Witness == obs.sensorResult = "TimedOut" /\ pc = "decide"

\* C8: a setVal of a value equal to the one the store already maps the key to
\* leaves the store as it is, and while a run has made only getVal calls and
\* such setVal calls the store is as it was loaded and needsSave is false.
C8_NoOpSetKeepsClean ==
    /\ \A k \in StoreKeys, v \in StoreVals :
        AlreadyHolds(persistData, k[1], k[2], v)
            => setVal(persistData, k[1], k[2], v) = persistData
    /\ (pc = "open" /\ ~obs.changed) =>
        /\ ~persistData.needsSave
        /\ persistData.data = obs.dataAtEnter

\* a run that has loaded values, read one and set one to an equal value
C8_Witness ==
    /\ pc = "open"
    /\ ~obs.changed
    /\ obs.sawNoOp
    /\ obs.lastGot = BoolVal(TRUE)

\* C9: the persist file is written at most once in a run, and only in a run
\* in which a setVal added a category or an instance id or replaced a value by
\* an unequal one.
C9_FileWrittenOnceIfChanged ==
    /\ obs.fileWrites <= 1
    /\ obs.fileWrites = 1 => obs.changed

\* a finished run that wrote the file
C9_Witness == pc = "finished" /\ obs.fileWrites = 1 /\ obs.changed

\* C10: what __exit__ leaves in the persist file, loaded by __enter__ into a
\* new store, answers getVal as the store does: the same value for every key
\* the store holds, the default for every key it does not hold.
C10_RoundTrip ==
    /\ LET saved == PersistentDataExit(persistData, persistFile).file
           loaded == PersistentDataEnter(saved)
       IN  pc = "open" =>
             \A k \in StoreKeys :
                getVal(loaded, k[1], k[2], NoneVal) = getVal(persistData, k[1], k[2], NoneVal)
    /\ pc = "closed" =>
         \A k \in StoreKeys :
            getVal(PersistentDataEnter(persistFile), k[1], k[2], NoneVal)
                = getVal(persistData, k[1], k[2], NoneVal)

\* a store saved with an integer of two digits, a boolean and an absent key
C10_Witness ==
    /\ pc = "closed"
    /\ obs.fileWrites = 1
    /\ getVal(persistData, "bouncy", "j", NoneVal) = IntVal(42)
    /\ getVal(persistData, "clove", "s", NoneVal) = BoolVal(TRUE)
    /\ getVal(persistData, "bouncy", "s", NoneVal) = NoneVal

\* C11: for every thermostat whose pass reaches the comparison,
\* set_emergency_heat(target) is the call issued exactly when the mode is not
\* Status and the flag read at the start of the pass differs from the target
\* (True for Enable, the persisted priorAuxState or False for Restore);
\* otherwise the read-only refresh is the call issued; no pass issues both, and
\* the step that leaves the comparison issues exactly one of them.
C11_SetIffFlagDiffers ==
    /\ [](\A d \in Devices :
            LET target == IF mode = "Enable" THEN TRUE
                          ELSE IF NeverPersisted(d) THEN FALSE
                          ELSE Truth(obs.dataAtEnter[PRIOR_AUX_STATE][d])
                differs == mode # "Status" /\ obs.auxAtLogin[d] # target
            IN  /\ obs.setCalls[d] + obs.refreshCalls[d] <= 1
                /\ obs.setCalls[d] = 1 => differs /\ obs.setArg[d] = target
                /\ obs.refreshCalls[d] = 1 => ~differs)
    /\ [][pc = "decide" =>
            obs'.setCalls[CurTherm] + obs'.refreshCalls[CurTherm] = 1]_vars

\* a finished Restore run that switched one thermostat on, as persisted, and
\* only refreshed another
C11_Witness ==
    /\ mode = "Restore"
    /\ pc = "finished"
    /\ obs.done = Devices
    /\ \E d \in Devices : obs.setCalls[d] = 1 /\ obs.setArg[d] /\ remoteAux[d]
    /\ \E d \in Devices : obs.refreshCalls[d] = 1

\* C12: in an Enable run the store already holds a thermostat's flag as its
\* priorAuxState in the state from which set_emergency_heat is called for it,
\* and when the run has ended with an exception the persist file holds the
\* flag of every thermostat whose pass had begun.
C12_PriorStateBeforeSetAndFlushed ==
    /\ [](mode = "Enable" =>
            /\ \A d \in Devices : obs.setCalls[d] > 0 => d \in obs.began
            /\ (pc = "finished" /\ exc # "none") =>
                 \A d \in obs.began :
                    /\ persistFile.exists
                    /\ PRIOR_AUX_STATE \in DOMAIN persistFile.doc
                    /\ d \in DOMAIN persistFile.doc[PRIOR_AUX_STATE]
                    /\ JsonDecode(persistFile.doc[PRIOR_AUX_STATE][d])
                           = BoolVal(obs.auxAtLogin[d]))
    /\ [][mode = "Enable" =>
            \A d \in Devices :
                obs'.setCalls[d] > obs.setCalls[d] =>
                    /\ d \in obs.began
                    /\ AlreadyHolds(persistData, PRIOR_AUX_STATE, d,
                                    BoolVal(obs.auxAtLogin[d]))]_vars

\* an Enable run ended by a failed set_emergency_heat has written to the file
\* the flag of a thermostat that had nothing persisted
C12_Witness ==
    /\ mode = "Enable"
    /\ pc = "finished"
    /\ exc = "ClientError"
    /\ obs.setFailed
    /\ obs.fileWrites = 1
    /\ \E d \in obs.began :
        /\ NeverPersisted(d)
        /\ obs.setCalls[d] = 1
        /\ JsonDecode(persistFile.doc[PRIOR_AUX_STATE][d]) = BoolVal(FALSE)

\* C13, as claimed: when the read-only refresh or the set_emergency_heat call
\* of a thermostat has failed, the finished run has still begun the pass of
\* every thermostat of the list.
C13_DevicesIndependent ==
    (/\ pc = "finished"
     /\ \E d \in Devices :
            obs.setCalls[d] + obs.refreshCalls[d] > 0 /\ d \notin obs.done)
        => obs.began = Devices

\* C14: when the sensor refresh of a thermostat has met a ClientError on all 6
\* attempts, or has given up polling, or has completed with a status other
\* than success, no exception propagates: the pass is at the comparison with
\* no call issued yet, and its next step issues the read-only refresh or
\* set_emergency_heat for that thermostat.
C14_SensorFailureAbsorbed ==
    /\ [](obs.sensorResult \in {"Exhausted", "TimedOut", "OtherStatus"} =>
            /\ pc = "decide"
            /\ exc = "none"
            /\ CurTherm \in obs.began
            /\ obs.setCalls[CurTherm] + obs.refreshCalls[CurTherm] = 0
            /\ obs.sensorResult = "Exhausted" => obs.jobSubmits = 6)
    /\ [][obs.sensorResult \in {"Exhausted", "TimedOut", "OtherStatus"} =>
            obs'.setCalls[CurTherm] + obs'.refreshCalls[CurTherm] = 1]_vars

\* the sensor refresh of the second thermostat ran out of retries and its pass
\* is at the comparison
C14_Witness ==
    /\ pc = "decide"
    /\ idx = 2
    /\ obs.sensorResult = "Exhausted"
    /\ obs.jobSubmits = 6

\* C15: the login loop calls nexiaHome.login() at most 6 times and the robust
\* sensor refresh calls loadCurrentSensorState at most 6 times; a loop is
\* still running only while every call it made failed with its retryable
\* error (so it stopped at the first success), each such failure costs one
\* retry, and once an exception propagates no step of a loop is taken.
C15_RetryLoopsBounded ==
    /\ obs.loginCalls <= 6
    /\ obs.jobSubmits <= 6
    /\ obs.loginCalls - obs.loginFailures \in {0, 1}
    /\ pc = "login" =>
        /\ loginRetries > 0
        /\ obs.loginCalls = obs.loginFailures
        /\ obs.loginFailures = 6 - loginRetries
    /\ pc = "update" =>
        \/ obs.loginCalls = obs.loginFailures + 1
        \/ obs.loginFailures = 6 /\ obs.loginExhausted
    /\ pc = "sensor" => sensRetries > 0 /\ obs.jobSubmits = 6 - sensRetries
    /\ pc = "poll" => sensRetries > 0 /\ obs.jobSubmits = 6 - sensRetries + 1
    /\ exc # "none" => pc \in {"exitSession", "exitStore", "exitKeep", "finished"}

\* the sixth call of nexiaHome.login() succeeded after five retryable failures
C15_Witness ==
    /\ pc = "update"
    /\ obs.loginCalls = 6
    /\ obs.loginFailures = 5
    /\ ~obs.loginExhausted

\* C16, as claimed: the caller of an exhausted retry loop can tell it from a
\* successful one: after 6 failed login attempts process() does not go on to
\* the thermostats as it does after a successful login, and the value the
\* robust sensor refresh returns after 6 failed attempts differs from the one
\* it returns after a success.
C16_ExhaustedToldApart ==
    /\ obs.loginExhausted => pc \notin {"forTherm", "sensor", "poll", "decide"}
    /\ (pc = "decide" /\ obs.sensorResult = "Exhausted") =>
          loadSensorStateRobustlyResult(obs.sensorResult)
              # loadSensorStateRobustlyResult("Success")

\* C17: at most 6 sensor-refresh jobs are submitted for a thermostat in a
\* run; every submitted job starts with a budget of 50 polls, of which each
\* null poll takes one; and a ClientError met while polling takes one of the 6
\* retries and, if any is left, returns to the submission of a new job.
C17_AtMostSixJobs ==
    /\ [](/\ obs.jobSubmits <= 6
          /\ pc = "poll" =>
                /\ pollRetries = 50 - obs.polls
                /\ obs.jobSubmits = 6 - sensRetries + 1
          /\ pc = "sensor" => obs.polls = 0 /\ pollRetries = 0)
    /\ [][/\ (obs'.jobSubmits > obs.jobSubmits /\ pc' = "poll") => pollRetries' = 50
          /\ (pc = "poll" /\ pc' = "sensor") =>
                /\ sensRetries' = sensRetries - 1
                /\ sensRetries' > 0
                /\ obs'.jobSubmits = obs.jobSubmits]_vars

\* the sixth job of a thermostat has been submitted after five request errors
\* and has its 50 polls ahead
C17_Witness ==
    /\ pc = "poll"
    /\ obs.jobSubmits = 6
    /\ sensRetries = 1
    /\ pollRetries = 50

\* C18: once a poll has returned a body other than null, whatever its status,
\* or the polling has given up, loadCurrentSensorState has returned and the
\* retry loop around it has ended: the pass is at the comparison, and no
\* further poll and no further job submission is made for the thermostat; a
\* new job is submitted only while no poll of the pass has produced a result.
C18_LeavesPollingOnFirstBody ==
    /\ [](obs.sensorResult \in {"Success", "OtherStatus", "TimedOut"} =>
            /\ pc = "decide"
            /\ pollRetries = 0
            /\ sensRetries = 0)
    /\ [][/\ (obs'.polls > obs.polls \/ obs'.jobSubmits > obs.jobSubmits) =>
                obs.sensorResult = "none"
          /\ (pc = "poll" /\ pc' = "sensor") => obs'.sensorResult = "none"]_vars

\* the first job of a thermostat completed with a status other than success
C18_Witness ==
    /\ pc = "decide"
    /\ obs.sensorResult = "OtherStatus"
    /\ obs.jobSubmits = 1

\* C19: the remote calls of a run are made one after the other: no call for a
\* thermostat is made before login and update have returned; the read-only
\* refresh or set_emergency_heat of a thermostat is made only after its sensor
\* refresh has ended; the pass of a thermostat begins only after the call of
\* every earlier thermostat of the list has returned; and at most one
\* thermostat has a pass in progress.
C19_RemoteCallsSequential ==
    /\ pc \in {"login", "update", "loginReturn"} =>
        /\ obs.began = {}
        /\ obs.jobSubmits = 0
        /\ \A d \in Devices : obs.setCalls[d] + obs.refreshCalls[d] = 0
    /\ obs.began # {} => obs.updateCalls = 1 /\ ~thermostats.isNone
    /\ \A i \in 1..NumDevices :
        DeviceList[i] \in obs.began =>
            \A j \in 1..(i - 1) : DeviceList[j] \in obs.done
    /\ \A d \in Devices :
        obs.setCalls[d] + obs.refreshCalls[d] > 0 =>
            /\ d \in obs.began
            /\ ~(pc \in {"sensor", "poll", "decide"} /\ CurTherm = d)
    /\ pc \in {"sensor", "poll", "decide"} => CurTherm \in obs.began \ obs.done
    /\ Cardinality(obs.began \ obs.done) <= 1

\* the first thermostat has been switched and the second one, its sensor
\* refresh over, is at the comparison
C19_Witness ==
    /\ pc = "decide"
    /\ idx = 2
    /\ DeviceList[1] \in obs.done
    /\ obs.setCalls[DeviceList[1]] = 1
    /\ obs.jobSubmits > 0

\* C20: the run acquires keep.running(), then the PersistentData store, then
\* the ClientSession, and releases them in the reverse order, whether
\* process() returned or raised: the store is closed (and the file written,
\* if at all) after the session is closed and while the sleep inhibitor is
\* still held, and a finished run holds none of the three.
C20_ResourcesReleasedInReverse ==
    LET order == <<"keep", "store", "session">>
        reverse == <<"session", "store", "keep">>
    IN  /\ Len(obs.acquired) <= 3
        /\ obs.acquired = SubSeq(order, 1, Len(obs.acquired))
        /\ Len(obs.released) <= 3
        /\ obs.released = SubSeq(reverse, 1, Len(obs.released))
        /\ obs.released # <<>> => obs.acquired = order
        /\ keepActive = (Len(obs.acquired) >= 1 /\ Len(obs.released) < 3)
        /\ sessionOpen = (Len(obs.acquired) = 3 /\ Len(obs.released) < 1)
        /\ obs.fileWrites > 0 => Len(obs.released) >= 2 /\ ~sessionOpen
        /\ pc = "exitKeep" => obs.released = <<"session", "store">> /\ keepActive
        /\ exc # "none" => obs.acquired = order
        /\ pc = "finished" =>
            /\ obs.acquired = order
            /\ obs.released = reverse
            /\ ~keepActive
            /\ ~sessionOpen
            /\ ~persistData.needsSave

\* a run ended by an exception has released the three resources in reverse
\* order and written the file on the way
C20_Witness ==
    /\ pc = "finished"
    /\ exc # "none"
    /\ obs.released = <<"session", "store", "keep">>
    /\ obs.fileWrites = 1

\* C21: when a Restore run follows an Enable run with nothing changed by hand
\* in between, every thermostat whose pass both runs completed has the
\* auxiliary-heat flag it had before the Enable run; and a Restore run never
\* calls setVal, so it leaves the store as loaded, needsSave false and the
\* persist file unwritten.
C21_EnableRestoreRoundTrip ==
    /\ (prev.ran /\ prev.mode = "Enable" /\ mode = "Restore" /\ ~extChanged) =>
        \A d \in prev.done \cap obs.done : remoteAux[d] = prev.aux[d]
    /\ mode = "Restore" =>
        /\ obs.storeWrites = 0
        /\ ~persistData.needsSave
        /\ persistData.data = obs.dataAtEnter
        /\ obs.fileWrites = 0

\* a finished Restore run after an Enable run, both over every thermostat:
\* one thermostat was off, switched on by Enable and off again by Restore,
\* another was on all along
C21_Witness ==
    /\ prev.ran /\ prev.mode = "Enable" /\ mode = "Restore" /\ ~extChanged
    /\ prev.done = Devices
    /\ pc = "finished"
    /\ obs.done = Devices
    /\ \E d \in prev.setOk : ~prev.aux[d] /\ obs.setCalls[d] = 1 /\ ~remoteAux[d]
    /\ \E d \in Devices : prev.aux[d] /\ obs.refreshCalls[d] = 1 /\ remoteAux[d]

====
